---- MODULE Spec2Model ----
(***************************************************************************)
(* Shifty v0.1.0 (src/src/shifty.core.js): one Tweenable instance, the    *)
(* host's clock and timer list, and the Tween controller of the instance.  *)
(*                                                                         *)
(* The instance owns ONE _tweenParams object and ONE _state object (init,  *)
(* lines 211-218); tween() refills them and every Tween controller closes  *)
(* over these same two objects (line 273).  A call on the controller of    *)
(* any run therefore acts on the instance's present params and state, and  *)
(* the controller actions below need no controller identity.               *)
(*                                                                         *)
(* Numbers are exact rationals [n, d] (d = 0 is NaN); time is in whole     *)
(* milliseconds, as +new Date() is.  User callbacks (filters, hooks, step, *)
(* callback) are observers: each invocation is recorded in trace and has   *)
(* no other effect.  trace holds what the handler that ran last invoked,   *)
(* in order: the user callbacks and the timer it scheduled.                *)
(***************************************************************************)
EXTENDS Integers, Sequences, FiniteSets, TLC

\* ------------------------------------------------------------------ bounds
StartTime == 10        \* the value of now() when the instance is built
MaxElapsed == 5        \* the clock is explored up to StartTime + MaxElapsed
MaxTimers == 2         \* pending host timers explored
MaxCallbacks == 2      \* completion-callback invocations explored per run
MaxRuns == 2           \* accepted tween() calls explored
MaxHooks == 2          \* length of a hook list explored
MaxCalls == 2          \* calls of stop, pause, resume and of init again explored
MaxScan == 2           \* iterations of hookRemove's loop explored past the list's end

\* --------------------------------------------------------------- sentinels
Null == -1             \* JavaScript null      (state.pausedAtTime, line 248)
Undefined == -2        \* JavaScript undefined (a missing argument or field)

VARIABLES
    fps,            \* this.fps                       (line 221)
    filter,         \* Tweenable.prototype.filter     (line 313), in key order
    hook,           \* this._hook                     (line 211): hook name -> list
    scan,           \* the hookRemove call in progress: its arguments and its i
    now,            \* the host clock, +new Date()
    timers,         \* the host's pending timeouts, in creation order
    current,        \* state.current: the properties of the tweened object
    currentRef,     \* state.current: which object it is (identity)
    isAnimating,    \* state.isAnimating (undefined reads as FALSE)
    isPaused,       \* state.isPaused    (undefined reads as FALSE)
    pausedAtTime,   \* state.pausedAtTime
    loopId,         \* state.loopId
    to,             \* params.to
    originalState,  \* params.originalState
    duration,       \* params.duration
    timestamp,      \* params.timestamp
    runs,           \* accepted tween() calls so far
    calls,          \* calls of stop, pause, resume and of init again, so far
    callbackCount,  \* invocations of the present run's params.callback
    lastCtl,        \* the last controller method called since the last accepted tween()
    returned,       \* what tween() returned, when the last step was a tween() call
    trace           \* what the last handler invoked (user callbacks, setTimeout), in order

vars == <<fps, filter, hook, scan, now, timers, current, currentRef, isAnimating, isPaused,
          pausedAtTime, loopId, to, originalState, duration, timestamp, runs,
          calls, callbackCount, lastCtl, returned, trace>>

config == <<fps, filter, scan>>
stateVars == <<current, currentRef, isAnimating, isPaused, pausedAtTime, loopId>>
paramVars == <<to, originalState, duration, timestamp>>

\* ----------------------------------------------------------------- numbers
RECURSIVE GCD(_, _)
GCD(a, b) == IF b = 0 THEN a ELSE GCD(b, a % b)

Abs(i) == IF i < 0 THEN -i ELSE i

NaN == [n |-> 0, d |-> 0]

\* The rational n/d in lowest terms with a positive denominator.
Rat(n, d) ==
    IF d = 0 THEN NaN
    ELSE LET g == GCD(Abs(n), Abs(d))
             s == IF d < 0 THEN -1 ELSE 1
         IN  [n |-> (s * n) \div g, d |-> (s * d) \div g]

Num(i) == [n |-> i, d |-> 1]

IsNaN(a) == a.d = 0

RatAdd(a, b) == IF IsNaN(a) \/ IsNaN(b) THEN NaN ELSE Rat(a.n * b.d + b.n * a.d, a.d * b.d)
RatSub(a, b) == IF IsNaN(a) \/ IsNaN(b) THEN NaN ELSE Rat(a.n * b.d - b.n * a.d, a.d * b.d)
RatMul(a, b) == IF IsNaN(a) \/ IsNaN(b) THEN NaN ELSE Rat(a.n * b.n, a.d * b.d)
RatDiv(a, b) == IF IsNaN(a) \/ IsNaN(b) \/ b.n = 0 THEN NaN ELSE Rat(a.n * b.d, a.d * b.n)
RatLeq(a, b) == a.n * b.d <= b.n * a.d

\* null converts to 0 in arithmetic.
ToNumber(v) == IF v = Null THEN 0 ELSE v

\* ------------------------------------------------------------------ inputs
NoProps == [k \in {} |-> NaN]
FromXY == [k \in {"x", "y"} |-> IF k = "x" THEN Num(0) ELSE Num(5)]
FromX == [k \in {"x"} |-> Num(2)]
ToX == [k \in {"x"} |-> Num(10)]
ToXY == [k \in {"x", "y"} |-> IF k = "x" THEN Num(10) ELSE Num(20)]
\* The (from, to) pairs tween() is called with: a property only in from, and
\* a property only in to.
FromTos == { <<FromXY, ToX>>, <<FromX, ToXY>> }
Durations == {4}
FpsChoices == {250, 500}
HookNames == {"step"}
HookFns == {"h1", "h2"}
NoHooks == [k \in {} |-> << >>]
NoFn == "undefined"    \* hookRemove called without its hookFunc argument
NoScan == [active |-> FALSE, name |-> "", fn |-> "", i |-> 0]
FilterNames == {"tweenCreated", "beforeTween", "afterTween"}
FilterConfigs ==
    { << >>,
      << [name |-> "f", fns |-> {"beforeTween"}],
         [name |-> "g", fns |-> FilterNames] >> }

\* ------------------------------------------------------------------ events
Ev(kind, name) == [kind |-> kind, name |-> name]

\* ----------------------------------------------------------------- helpers
\* simpleCopy(targetObj, srcObj): every own property of srcObj is written to
\* targetObj; the result is targetObj (the same object).
simpleCopy(targetObj, srcObj) ==
    [k \in DOMAIN targetObj \cup DOMAIN srcObj |->
        IF k \in DOMAIN srcObj THEN srcObj[k] ELSE targetObj[k]]

Prop(obj, k) == IF k \in DOMAIN obj THEN obj[k] ELSE NaN

linearNoStart(t, b, c, d) == RatDiv(RatMul(c, t), d)

\* formula.linear(t, b, c, d) = c * t / d + b
linear(t, b, c, d) == RatAdd(RatDiv(RatMul(c, t), d), b)

tweenPropsFromCurrent(currentTime) ==
    [k \in DOMAIN current |->
        IF k \in DOMAIN to
        THEN linear(Num(currentTime - timestamp),
                    current[k],
                    RatSub(to[k], current[k]),
                    Num(duration))
        ELSE current[k]]

tweenPropsEveryProp(currentTime) ==
    [k \in DOMAIN current |->
        linear(Num(currentTime - timestamp),
               Prop(originalState, k),
               RatSub(Prop(to, k), Prop(originalState, k)),
               Num(duration))]

\* tweenProps(currentTime, params, state): the new properties of state.current.
tweenProps(currentTime) ==
    [k \in DOMAIN current |->
        IF k \in DOMAIN to
        THEN linear(Num(currentTime - timestamp),
                    Prop(originalState, k),
                    RatSub(to[k], Prop(originalState, k)),
                    Num(duration))
        ELSE current[k]]

\* setTimeout converts its delay to an integer; a NaN delay (1000 / undefined)
\* is armed with the host's shortest delay, 1 ms.
Delay(fpsArg) == IF fpsArg = Undefined THEN 1 ELSE 1000 \div fpsArg

\* The host's timers run on a clock of their own, read in whole milliseconds:
\* a handler can run when +new Date() is still 1 ms short of the due time.
HostSlack == 1

TimerIds == {timers[i].id : i \in DOMAIN timers}

\* The handle setTimeout returns: an integer above zero that names no pending
\* timer (and that no stored handle still holds).
FreshId == CHOOSE i \in 1..(Len(timers) + 2) : i \notin TimerIds /\ i # loopId

\* scheduleUpdate(handler, fps): the timer it creates. handler is "self" for
\* the closure of tween(), which reads self._tweenParams and self._state when
\* it runs, and "captured" for the closures of timeoutHandler and resume(),
\* which hold the params and state objects they were made with.
scheduleUpdate(handler, fpsArg) ==
    [id |-> FreshId, due |-> now + Delay(fpsArg), delay |-> Delay(fpsArg),
     own |-> (handler = "self")]

\* clearTimeout(id) on a list of pending timers.
clearTimeout(ts, id) == SelectSeq(ts, LAMBDA t : t.id # id)

RECURSIVE FilterEvents(_, _)
\* applyFilter(filterName, ...): one invocation per group that has filterName,
\* in the registry's key order.
FilterEvents(groups, filterName) ==
    IF groups = << >> THEN << >>
    ELSE (IF filterName \in Head(groups).fns
          THEN << Ev(filterName, Head(groups).name) >> ELSE << >>)
         \o FilterEvents(Tail(groups), filterName)

applyFilter(filterName) == FilterEvents(filter, filterName)

\* invokeHook(hookName, hooks, ...): the listed functions, first to last.
invokeHook(hookName) ==
    [i \in 1..Len(hook[hookName]) |-> Ev("hook", hook[hookName][i])]

\* The host runs a pending timer that is due, give or take HostSlack: not
\* before a timer that is due more than HostSlack earlier, and not before an
\* older timer armed with the same delay (the host keeps those in one list, in
\* creation order). Between other timers that are due the order is the host's.
Fires(i) ==
    /\ timers[i].due - HostSlack <= now
    /\ \A j \in DOMAIN timers :
          j # i => /\ timers[j].due >= timers[i].due - HostSlack
                   /\ ~(j < i /\ timers[j].delay = timers[i].delay)

Without(ts, i) == [j \in 1..(Len(ts) - 1) |-> IF j < i THEN ts[j] ELSE ts[j + 1]]

\* get(): the object the controller hands out.
get == currentRef

\* -------------------------------------------------------------------- Init
Init ==
    /\ fps \in FpsChoices
    /\ filter = << >>
    /\ hook = NoHooks
    /\ scan = NoScan
    /\ now = StartTime
    /\ timers = << >>
    /\ current = NoProps
    /\ currentRef = 0
    /\ isAnimating = FALSE
    /\ isPaused = FALSE
    /\ pausedAtTime = Undefined
    /\ loopId = Undefined
    /\ to = NoProps
    /\ originalState = NoProps
    /\ duration = Undefined
    /\ timestamp = Undefined
    /\ runs = 0
    /\ calls = 0
    /\ callbackCount = 0
    /\ lastCtl = "none"
    /\ returned = "none"
    /\ trace = << >>

\* ----------------------------------------------------------------- actions
\* The host clock moves on by a millisecond.
\* init(options) called again on the instance, lines 208-230: _hook,
\* _tweenParams and _state are replaced by fresh objects and fps is set from
\* the options; the host's pending timers stay. The closure of tween() will
\* act on the new objects. The closures of timeoutHandler and resume() and
\* the controllers handed out earlier keep the replaced objects: init() is
\* explored while none of those closures is pending, and no call is made on
\* an earlier controller after it.
init(fpsOption) ==
    /\ ~scan.active
    /\ runs > 0
    /\ calls < MaxCalls
    /\ calls' = calls + 1
    /\ \A i \in DOMAIN timers : timers[i].own
    /\ fps' = fpsOption
    /\ hook' = NoHooks
    /\ to' = NoProps
    /\ originalState' = NoProps
    /\ duration' = Undefined
    /\ timestamp' = Undefined
    /\ current' = NoProps
    /\ currentRef' = 0
    /\ isAnimating' = FALSE
    /\ isPaused' = FALSE
    /\ pausedAtTime' = Undefined
    /\ loopId' = Undefined
    /\ callbackCount' = 0
    /\ lastCtl' = "none"
    /\ trace' = << >>
    /\ returned' = "none"
    /\ UNCHANGED <<filter, scan, now, timers, runs>>

Advance ==
    /\ now < StartTime + MaxElapsed
    /\ now' = now + 1
    /\ trace' = << >>
    /\ UNCHANGED <<config, hook, timers, stateVars, paramVars, runs, calls, callbackCount,
                   lastCtl>>
    /\ returned' = "none"

\* Tweenable.hookAdd(hookName, hookFunc), lines 283-289
hookAdd(hookName, hookFunc) ==
    /\ (hookName \in DOMAIN hook => Len(hook[hookName]) < MaxHooks)
    /\ hook' = [k \in DOMAIN hook \cup {hookName} |->
                  IF k = hookName
                  THEN (IF k \in DOMAIN hook THEN hook[k] ELSE << >>) \o << hookFunc >>
                  ELSE hook[k]]
    /\ trace' = << >>
    /\ UNCHANGED <<config, now, timers, stateVars, paramVars, runs, calls, callbackCount,
                   lastCtl>>
    /\ returned' = "none"

\* Tweenable.tween, lines 244-280: the call is accepted.
tweenAccepted(from, toArg, durationArg) ==
    /\ loopId' = 0
    /\ current' = from
    /\ currentRef' = runs + 1
    /\ pausedAtTime' = Null
    /\ to' = toArg
    /\ duration' = durationArg
    /\ timestamp' = now
    /\ originalState' = simpleCopy(NoProps, from)
    /\ isAnimating' = TRUE
    /\ timers' = Append(timers, scheduleUpdate("self", fps))
    /\ runs' = runs + 1
    /\ callbackCount' = 0
    /\ lastCtl' = "none"
    /\ trace' = applyFilter("tweenCreated") \o << Ev("setTimeout", "this.fps") >>
    /\ returned' = "controller"
    /\ UNCHANGED <<config, hook, now, isPaused, calls>>

\* Tweenable.tween, lines 241-243: the call is rejected.
tweenRejected ==
    /\ trace' = << >>
    /\ returned' = "undefined"
    /\ UNCHANGED <<config, hook, now, timers, stateVars, paramVars, runs, calls,
                   callbackCount, lastCtl>>

tweenUnguarded(from, toArg, durationArg) == tweenAccepted(from, toArg, durationArg)

\* Tweenable.tween(from, to, duration)
tween(from, toArg, durationArg) ==
    IF isAnimating THEN tweenRejected ELSE tweenAccepted(from, toArg, durationArg)

stopWithoutSnap(gotoEnd, ts) ==
    /\ timers' = clearTimeout(ts, loopId)
    /\ IF gotoEnd
       THEN /\ isAnimating' = FALSE
            /\ callbackCount' = callbackCount + 1
            /\ trace' = << Ev("callback", "callback") >>
            /\ UNCHANGED current
       ELSE /\ trace' = << >>
            /\ UNCHANGED <<current, isAnimating, callbackCount>>
    /\ UNCHANGED <<config, hook, now, currentRef, isPaused, pausedAtTime, loopId, paramVars, runs>>
    /\ returned' = "none"

\* Tween.stop(gotoEnd), lines 149-158, as the controller method and as the
\* call timeoutHandler makes (line 139): `ts` are the pending timers it finds.
stop(gotoEnd, ts) ==
    /\ timers' = clearTimeout(ts, loopId)
    /\ IF gotoEnd
       THEN /\ current' = simpleCopy(current, to)
            /\ isAnimating' = FALSE
            /\ callbackCount' = callbackCount + 1
            /\ trace' = << Ev("callback", "callback") >>
       ELSE /\ trace' = << >>
            /\ UNCHANGED <<current, isAnimating, callbackCount>>
    /\ UNCHANGED <<config, hook, now, currentRef, isPaused, pausedAtTime, loopId, paramVars, runs>>
    /\ returned' = "none"

\* timeoutHandler, line 122: the tween goes on.
ContinueConditionNoDeadline == isAnimating

\* The test of timeoutHandler (line 122). On params that no tween() has filled
\* timestamp + duration is NaN and the comparison is false.
ContinueCondition == duration # Undefined /\ now < timestamp + duration /\ isAnimating

\* timeoutHandler, lines 123-136: what the handler invokes when the tween goes on.
tickInvocationsStepFirst ==
    applyFilter("beforeTween")
    \o << Ev("tweenProps", "tweenProps") >>
    \o applyFilter("afterTween")
    \o << Ev("step", "step") >>
    \o (IF "step" \in DOMAIN hook THEN invokeHook("step") ELSE << >>)
    \o << Ev("setTimeout", "params.fps") >>

tickInvocations ==
    applyFilter("beforeTween")
    \o << Ev("tweenProps", "tweenProps") >>
    \o applyFilter("afterTween")
    \o (IF "step" \in DOMAIN hook THEN invokeHook("step") ELSE << >>)
    \o << Ev("step", "step") >>
    \o << Ev("setTimeout", "params.fps") >>

\* timeoutHandler, lines 123-136: the tween goes on.
timeoutHandlerContinueNoReschedule(i) ==
    /\ current' = tweenProps(now)
    /\ timers' = Without(timers, i)
    /\ trace' = tickInvocations
    /\ UNCHANGED <<config, hook, now, currentRef, isAnimating, isPaused, pausedAtTime,
                   loopId, paramVars, runs, callbackCount, lastCtl>>
    /\ returned' = "none"

timeoutHandlerContinue(i) ==
    LET t == scheduleUpdate("captured", Undefined)      \* params.fps is never set
    IN  /\ current' = tweenProps(now)
        /\ loopId' = t.id
        /\ timers' = Append(Without(timers, i), t)
        /\ trace' = tickInvocations
        /\ UNCHANGED <<config, hook, now, currentRef, isAnimating, isPaused, pausedAtTime,
                       paramVars, runs, callbackCount, lastCtl>>
        /\ returned' = "none"

\* timeoutHandler(params, state), run by the host for pending timer i.
\* The else branch on params that no tween() has filled since init():
\* params.tweenController is undefined and line 139 throws a TypeError.
timeoutHandlerThrows(i) ==
    /\ timers' = Without(timers, i)
    /\ trace' = << Ev("throw", "TypeError") >>
    /\ returned' = "none"
    /\ UNCHANGED <<config, hook, now, stateVars, paramVars, runs, callbackCount, lastCtl>>

timeoutHandler(i) ==
    /\ Fires(i)
    /\ callbackCount < MaxCallbacks
    /\ UNCHANGED calls
    /\ IF ContinueCondition
       THEN timeoutHandlerContinue(i)
       ELSE IF duration = Undefined
            THEN timeoutHandlerThrows(i)
            ELSE /\ stop(TRUE, Without(timers, i))
                 /\ UNCHANGED lastCtl

\* controller.stop(gotoEnd)
Stop(gotoEnd) ==
    /\ callbackCount < MaxCallbacks
    /\ stop(gotoEnd, timers)
    /\ lastCtl' = IF gotoEnd THEN "stop(true)" ELSE "stop()"

\* controller.pause(), lines 164-169
pause ==
    /\ timers' = clearTimeout(timers, loopId)
    /\ pausedAtTime' = now
    /\ isPaused' = TRUE
    /\ lastCtl' = "pause"
    /\ trace' = << >>
    /\ UNCHANGED <<config, hook, now, current, currentRef, isAnimating, loopId, paramVars,
                   runs, callbackCount>>
    /\ returned' = "none"

\* The logical start time resume() leaves in params.timestamp (line 177).
resumeTimestamp ==
    IF isPaused THEN timestamp + (ToNumber(pausedAtTime) - timestamp) ELSE timestamp

\* controller.resume(), lines 175-185
resume ==
    /\ Len(timers) < MaxTimers
    /\ timestamp' = resumeTimestamp
    /\ timers' = Append(timers, scheduleUpdate("captured", Undefined))   \* no fps argument
    /\ lastCtl' = "resume"
    /\ trace' = << Ev("setTimeout", "undefined") >>
    /\ UNCHANGED <<config, hook, now, stateVars, to, originalState, duration, runs,
                   callbackCount>>
    /\ returned' = "none"

\* hookRemove(hookName, hookFunc), lines 291-308, up to its loop: the early
\* return for a name that has no list (293-295), the list emptied when
\* hookFunc is omitted (297-300), and otherwise the loop's initialisation
\* i = this._hook[hookName].length (303). The script is single-threaded: while
\* the call is in its loop no other handler runs.
hookRemove(hookName, hookFunc) ==
    /\ ~scan.active
    /\ IF hookName \notin DOMAIN hook
       THEN UNCHANGED <<hook, scan>>
       ELSE IF hookFunc = NoFn
            THEN /\ hook' = [hook EXCEPT ![hookName] = << >>]
                 /\ UNCHANGED scan
            ELSE /\ scan' = [active |-> TRUE, name |-> hookName, fn |-> hookFunc,
                             i |-> Len(hook[hookName])]
                 /\ UNCHANGED hook
    /\ trace' = << >>
    /\ returned' = "none"
    /\ UNCHANGED <<fps, filter, now, timers, stateVars, paramVars, runs, calls,
                   callbackCount, lastCtl>>

\* One iteration of the loop of hookRemove, lines 303-307:
\*   for (i = this._hook[hookName].length; i >= 0; i++)
\*     if (this._hook[hookName][i] === hookFunc) this._hook[hookName].splice(i, 1);
\* the test i >= 0, the body, then i++; the call returns when the test fails.
\* Index i of the JavaScript array is position i + 1 of the sequence.
hookRemoveIteration ==
    /\ scan.active
    /\ scan.i < Len(hook[scan.name]) + MaxScan
    /\ IF scan.i >= 0
       THEN /\ hook' = IF scan.i < Len(hook[scan.name]) /\ hook[scan.name][scan.i + 1] = scan.fn
                       THEN [hook EXCEPT ![scan.name] =
                                [j \in 1..(Len(@) - 1) |-> IF j <= scan.i THEN @[j] ELSE @[j + 1]]]
                       ELSE hook
            /\ scan' = [scan EXCEPT !.i = @ + 1]
       ELSE /\ scan' = NoScan
            /\ UNCHANGED hook
    /\ trace' = << >>
    /\ returned' = "none"
    /\ UNCHANGED <<fps, filter, now, timers, stateVars, paramVars, runs, calls,
                   callbackCount, lastCtl>>

Called(method) ==
    /\ ~scan.active
    /\ runs > 0
    /\ duration # Undefined
    /\ calls < MaxCalls
    /\ calls' = calls + 1
    /\ method

\* A tween() call by the program; the calls that start a run are explored up
\* to MaxRuns runs and MaxTimers pending timers.
Tween == \E ft \in FromTos, durationArg \in Durations :
            /\ ~scan.active
            /\ isAnimating \/ (runs < MaxRuns /\ Len(timers) < MaxTimers)
            /\ tween(ft[1], ft[2], durationArg)

Tick == ~scan.active /\ \E i \in DOMAIN timers : timeoutHandler(i)

HookAdd == ~scan.active /\ \E hookName \in HookNames, f \in HookFns : hookAdd(hookName, f)

HookRemove == \E hookName \in HookNames, f \in HookFns \cup {NoFn} : hookRemove(hookName, f)

HookRemoveLoop == hookRemoveIteration

Reinit == \E fpsOption \in FpsChoices : init(fpsOption)

\* A call of a controller method by the program that holds the controller.
StopCall == \E gotoEnd \in BOOLEAN : Called(Stop(gotoEnd))

PauseCall == Called(pause)

ResumeCall == Called(resume)

Next ==
    \/ Advance
    \/ Tween
    \/ Tick
    \/ StopCall
    \/ PauseCall
    \/ ResumeCall
    \/ Reinit

\* tween() called while the explored clock still has room for the whole run:
\* the run needs the clock to reach timestamp + duration and its first tick.
TweenInTime == \E ft \in FromTos, durationArg \in Durations :
                   /\ ~scan.active
                   /\ \/ isAnimating
                      \/ /\ runs < MaxRuns
                         /\ Len(timers) < MaxTimers
                         /\ now + durationArg <= StartTime + MaxElapsed
                         /\ now + Delay(fps) <= StartTime + MaxElapsed
                   /\ tween(ft[1], ft[2], durationArg)

NextLive ==
    \/ Advance
    \/ TweenInTime
    \/ Tick

\* One instance on which no controller method is ever called, with a clock that
\* keeps advancing and a host that fires every timer that is due.
SpecLive == Init /\ [][NextLive]_vars /\ WF_vars(Advance) /\ WF_vars(Tick)

NextInit ==
    \/ HookAdd
    \/ Advance
    \/ Tween
    \/ Tick
    \/ Reinit

\* One instance with hooks added, initialised again while its timers are
\* pending.
SpecInit == Init /\ [][NextInit]_vars

\* One instance with no filter registered and no hook added: the life of its
\* runs under every order of ticks and controller calls.
Spec == Init /\ [][Next]_vars

\* The instance with filters registered before it is built and hooks added
\* at any time, its runs left to the timer (no controller call).
InitHooks ==
    /\ fps \in FpsChoices
    /\ filter \in FilterConfigs
    /\ hook = NoHooks
    /\ scan = NoScan
    /\ now = StartTime
    /\ timers = << >>
    /\ current = NoProps
    /\ currentRef = 0
    /\ isAnimating = FALSE
    /\ isPaused = FALSE
    /\ pausedAtTime = Undefined
    /\ loopId = Undefined
    /\ to = NoProps
    /\ originalState = NoProps
    /\ duration = Undefined
    /\ timestamp = Undefined
    /\ runs = 0
    /\ calls = 0
    /\ callbackCount = 0
    /\ lastCtl = "none"
    /\ returned = "none"
    /\ trace = << >>

NextHooks ==
    \/ HookAdd
    \/ HookRemove
    \/ HookRemoveLoop
    \/ Advance
    \/ Tween
    \/ Tick

SpecHooks == InitHooks /\ [][NextHooks]_vars

\* ------------------------------------------------------------------ claims

\* C1: the completion callback of a run is invoked at most once, and exactly
\* once when the run has completed (naturally or by stop(true)); stated here
\* for the runs of a program that makes at most one controller call.
C1_CallbackOnce ==
    calls <= 1 =>
        /\ callbackCount <= 1
        /\ (duration # Undefined /\ ~isAnimating => callbackCount = 1)

\* C2: pause/resume is transparent: a resume() that follows pause() moves the
\* run's completion time (timestamp + duration) back by exactly the wall-clock
\* time spent paused, now - pausedAtTime, so that a run paused for P ms
\* completes at D + P after its start.
C2_PauseResumeTransparent ==
    [][ (lastCtl = "pause" /\ ResumeCall) =>
            timestamp' + duration' = (timestamp + duration) + (now - pausedAtTime) ]_vars

\* C3: after pause() and until the next controller call, no tick handler runs
\* and current does not change; stated here for a pause() that is the
\* program's only controller call.
C3_PausedNoTick ==
    [][ (lastCtl = "pause" /\ calls = 1 /\ calls' = 1) => (~Tick /\ current' = current) ]_vars

\* C4: after stop() / stop(false) and until the next controller call, current
\* keeps its value and the completion callback is not invoked; stated here
\* for a stop() that is the program's only controller call.
C4_StopKeepsCurrent ==
    [][ (lastCtl = "stop()" /\ calls = 1 /\ calls' = 1) =>
            (current' = current /\ callbackCount' = callbackCount) ]_vars

\* The properties of a run that are tweened: those in both from and to.
Tweened == DOMAIN originalState \cap DOMAIN to

\* A tick that finds the duration elapsed.
NaturalCompletion == duration # Undefined /\ now >= timestamp + duration /\ Tick

\* A call of stop(true) on the controller.
StopTrueCall == Called(Stop(TRUE))

\* C5: natural completion and stop(true) leave every tweened property of
\* current equal to its target, isAnimating false, and current the object it
\* was (the one get() returns).
C5_CompletionSnap ==
    [][ (NaturalCompletion \/ StopTrueCall) =>
            /\ \A k \in Tweened : k \in DOMAIN current' /\ current'[k] = to[k]
            /\ isAnimating' = FALSE
            /\ get' = get ]_vars

\* C5 witness: a run that ticked, then completed naturally at its duration.
C5_Witness ==
    /\ runs = 1 /\ calls = 0 /\ ~isAnimating /\ callbackCount = 1
    /\ now >= timestamp + duration
    /\ Tweened # {}
    /\ \A k \in Tweened : current[k] = to[k] /\ current[k] # originalState[k]

\* C6: tween() on an instance that is animating (paused or not) returns no
\* controller, schedules nothing and changes nothing of the run in flight.
C6_SingleRun ==
    [][ (isAnimating /\ Tween) =>
            /\ returned' = "undefined"
            /\ UNCHANGED <<timers, stateVars, paramVars, runs, callbackCount>> ]_vars

\* C6 witness: tween() was just rejected on a paused run that has ticked.
C6_Witness ==
    /\ returned = "undefined" /\ isAnimating /\ isPaused /\ lastCtl = "pause"
    /\ \E k \in Tweened : current[k] # originalState[k]

\* A run that has ended: it completed, or stop was called on it last.
RunEnded == runs > 0 /\ (~isAnimating \/ lastCtl \in {"stop()", "stop(true)"})

\* C7: the tween() call that follows the end of a run (natural completion,
\* stop(true), stop() or stop(false)) is accepted and returns a controller.
C7_NextTweenAccepted ==
    [][ (RunEnded /\ Tween) => returned' = "controller" ]_vars

\* C8: once isAnimating is false and no tick is pending, a controller call
\* invokes no callback, schedules no tick and changes neither current nor the
\* run parameters.
C8_InertController ==
    [][ (runs > 0 /\ ~isAnimating /\ timers = << >>
         /\ (StopCall \/ PauseCall \/ ResumeCall)) =>
            /\ callbackCount' = callbackCount
            /\ timers' = << >>
            /\ UNCHANGED <<current, paramVars>> ]_vars

\* The place of an invocation in the order the claim gives.
Rank(e) ==
    CASE e.kind = "beforeTween" -> 1
      [] e.kind = "tweenProps" -> 2
      [] e.kind = "afterTween" -> 3
      [] e.kind = "hook" -> 4
      [] e.kind = "step" -> 5
      [] e.kind = "setTimeout" -> 6
      [] OTHER -> 0

Count(tr, kind) == Cardinality({i \in DOMAIN tr : tr[i].kind = kind})

NamesOf(tr, kind) ==
    LET sel == SelectSeq(tr, LAMBDA e : e.kind = kind)
    IN  [i \in DOMAIN sel |-> sel[i].name]

GroupsWith(filterName) ==
    LET sel == SelectSeq(filter, LAMBDA g : filterName \in g.fns)
    IN  [i \in DOMAIN sel |-> sel[i].name]

\* C9: a tick that meets the continue condition invokes the beforeTween
\* filters, the interpolation, the afterTween filters, every 'step' hook in
\* registration order and the step callback, in that order and each once, and
\* then schedules one tick, whose handle is stored in loopId.
C9_TickOrder ==
    [][ (ContinueCondition /\ Tick) =>
            /\ \A i, j \in DOMAIN trace' : i < j => Rank(trace'[i]) <= Rank(trace'[j])
            /\ \A i \in DOMAIN trace' : Rank(trace'[i]) > 0
            /\ NamesOf(trace', "beforeTween") = GroupsWith("beforeTween")
            /\ Count(trace', "tweenProps") = 1
            /\ NamesOf(trace', "afterTween") = GroupsWith("afterTween")
            /\ NamesOf(trace', "hook") = (IF "step" \in DOMAIN hook THEN hook["step"] ELSE << >>)
            /\ Count(trace', "step") = 1
            /\ Count(trace', "setTimeout") = 1
            /\ Len(timers') = Len(timers)
            /\ timers'[Len(timers')].id = loopId'
            /\ \A i \in 1..(Len(timers') - 1) : timers'[i].id # loopId' ]_vars

\* C9 witness: a continuing tick has run with two filter groups and two
\* different step hooks registered.
C9_Witness ==
    /\ isAnimating /\ Len(filter) = 2
    /\ "step" \in DOMAIN hook /\ Len(hook["step"]) = 2 /\ hook["step"][1] # hook["step"][2]
    /\ Len(trace) = 8
    /\ trace[3].kind = "tweenProps" /\ trace[7].kind = "step"

\* C10: a property of from that to lacks keeps its initial value in current
\* in every state of the run, completion and stop(true) included.
C10_UntweenedUntouched ==
    \A k \in DOMAIN originalState \ DOMAIN to :
        k \in DOMAIN current /\ current[k] = originalState[k]

\* C10 witness: mid-run, x has been interpolated and y, absent from to, is in current.
C10_Witness ==
    /\ isAnimating /\ "y" \in DOMAIN originalState \ DOMAIN to
    /\ "x" \in Tweened /\ current["x"] # originalState["x"] /\ current["x"] # to["x"]


\* C11: a property that only to has is never created in current: the keys of
\* current are the keys from had when tween() was called (those of
\* originalState), in every state of a run, after stop(true) and natural
\* completion too.
C11_NoNewKeys == runs > 0 => DOMAIN current = DOMAIN originalState

\* The value the claim gives property k at elapsed time t of a run:
\* originalState[k] + (to[k] - originalState[k]) * t / duration, as the
\* fraction ((duration - t) * originalState[k] + t * to[k]) / duration.
Expected(k, t) ==
    LET o == originalState[k]
        g == to[k]
    IN  Rat((duration - t) * o.n * g.d + t * g.n * o.d, duration * o.d * g.d)

\* C12: a tick at elapsed time t = now - timestamp, 0 <= t < duration, of a
\* run on which no controller method was called sets each tweened property to
\* originalState[k] + (to[k] - originalState[k]) * t / duration; the tick that
\* finds t >= duration leaves it at to[k].
C12_LinearExact ==
    [][ (lastCtl = "none" /\ isAnimating /\ Tick) =>
            \A k \in Tweened :
                IF now - timestamp < duration
                THEN now - timestamp >= 0 /\ current'[k] = Expected(k, now - timestamp)
                ELSE current'[k] = to[k] ]_vars

\* C12 witness: an undisturbed run from x = 2 to x = 10 over 4 ms has ticked
\* at elapsed time 3, where x = 2 + 8 * 3 / 4 = 8.
C12_Witness ==
    /\ isAnimating /\ lastCtl = "none" /\ calls = 0
    /\ now - timestamp = 3
    /\ "x" \in Tweened /\ originalState["x"] = Num(2) /\ to["x"] = Num(10)
    /\ current["x"] = Num(8)

\* C13: hookRemove(name, fn) always terminates, whatever the list holds: each
\* iteration of its loop over the list either ends the call or brings the
\* index i nearer to the value that ends the loop (i < 0).
C13_HookRemoveTerminates ==
    [][ hookRemoveIteration => (~scan'.active \/ scan'.i < scan.i) ]_vars

\* C14: every tick that is scheduled (the first one by tween(), the next one by
\* the handler, the one of resume()) is due 1000 / fps ms after the call that
\* schedules it, fps being the instance's fps, and its timer handle is the one
\* stored in loopId.
C14_TickCadence ==
    [][ (trace' # << >> /\ trace'[Len(trace')].kind = "setTimeout") =>
            LET t == timers'[Len(timers')]
            IN  /\ t.due = now + 1000 \div fps
                /\ loopId' = t.id ]_vars

\* C15: originalState is a copy by value of the start values. With no filter
\* registered an accepted tween() captures the properties of from in it, no
\* tick, pause(), resume() or stop() changes it afterwards, and every
\* interpolation starts from those captured values although current has been
\* overwritten by the earlier ticks.
C15_OriginalStateKept ==
    [][ /\ runs' = runs + 1 => originalState' = current'
        /\ originalState' # originalState => ~(Tick \/ StopCall \/ PauseCall \/ ResumeCall)
        /\ (ContinueCondition /\ Tick) =>
               \A k \in Tweened : current'[k] = Expected(k, now - timestamp) ]_vars

\* C15 witness: a tick of a run from x = 2 has moved current to 8 and scheduled
\* the next tick, while originalState still holds the start value 2.
C15_Witness ==
    /\ isAnimating /\ filter = << >>
    /\ "x" \in Tweened
    /\ originalState["x"] = Num(2)
    /\ current["x"] = Num(8)
    /\ loopId > 0 /\ timers # << >>

\* C16: at most one tick timer is pending for an instance, whatever the
\* sequence of tween(), pause(), resume() and stop() calls.
C16_OneTimer == Len(timers) <= 1

\* C17: resume() changes timestamp only when pause() has been called on the
\* run since its tween(): as the first controller call of a run it leaves
\* timestamp alone, every accepted tween() having started the run unpaused.
C17_ResumeNeedsPause ==
    [][ (lastCtl = "none" /\ ResumeCall) => timestamp' = timestamp ]_vars

\* C18: a run on which no controller method is called ends: once tween() has
\* been accepted, with the clock advancing and due timers firing, the instance
\* eventually has isAnimating = FALSE, its callback invoked and no tick pending.
C18_RunEnds ==
    isAnimating ~> (~isAnimating /\ callbackCount = 1 /\ timers = << >>)

\* C18 witness: the tick that ended an undisturbed run has just invoked the
\* callback and left no timer behind.
C18_Witness ==
    /\ runs > 0 /\ calls = 0 /\ lastCtl = "none"
    /\ ~isAnimating /\ callbackCount = 1 /\ timers = << >>
    /\ trace = << Ev("callback", "callback") >>

\* C19: with the linear easing and a clock that never goes back, every
\* property that from and to both have stays between its start value and its
\* target, both included, in every reachable state: the interpolation is only
\* evaluated at an elapsed time in [0, duration), pause(), resume() and a
\* stale isPaused notwithstanding.
C19_WithinRange ==
    \A k \in Tweened \cap DOMAIN current :
        /\ ~IsNaN(current[k])
        /\ \/ RatLeq(originalState[k], current[k]) /\ RatLeq(current[k], to[k])
           \/ RatLeq(to[k], current[k]) /\ RatLeq(current[k], originalState[k])

\* C19 witness: a run that was paused and resumed has ticked again, and x lies
\* strictly between its start value and its target.
C19_Witness ==
    /\ isAnimating /\ isPaused /\ lastCtl = "resume" /\ calls = 2
    /\ timestamp = pausedAtTime /\ now > timestamp
    /\ "x" \in Tweened
    /\ current["x"] = Expected("x", now - timestamp)
    /\ current["x"] # originalState["x"] /\ current["x"] # to["x"]

====
